---- MODULE Spec2Model ----
(***************************************************************************)
(* Model of picrust2/metagenome_pipeline.py: the confidence (NSTI) filter, *)
(* the alignment of the three tables, the normalisation by marker copies,  *)
(* the weighted NSTI, the rare-sequence classifier and the per-sample      *)
(* aggregation into the stratified and unstratified tables.                *)
(*                                                                         *)
(* Numbers.  Abundances are kept in hundredths (the normalised table is    *)
(* rounded to round_decimal = 2 places), copy numbers are whole numbers,   *)
(* NSTI scores are kept in tenths.  The two non-finite floating point      *)
(* values a division by zero produces are the values NaN and Inf below;    *)
(* every arithmetic operator follows IEEE-754 on them, and every pandas    *)
(* reduction skips NaN (skipna=True, the default) as pandas does.          *)
(***************************************************************************)
EXTENDS Integers, Sequences, FiniteSets, TLC

\* ------------------------------------------------------------------ bounds
MaxMarker == 2
MaxMinReads == 2
MaxMinSamples == 2

\* ------------------------------------------------------- bounded input sets
Samples == {"s1", "s2"}
sample_ids == <<"s1", "s2">>
Funcs == {"f1", "f2"}
\* Read counts and copy numbers of the tables drawn (absent or present); the
\* worked example adds the counts 5 and 10 and the copy number 2.
Counts == {0, 1}
Copies == {0, 1}
\* NSTI scores and thresholds, in tenths; --max_nsti defaults to 2.0.
Scores == {5, 10, 25}
DefaultMaxNsti == 20
Thresholds == {10, DefaultMaxNsti}

\* ------------------------------------------------------- non-finite values
NaN == -1
Inf == -2

IsFinite(x) == x >= 0

\* x * y of two floats, x a finite copy number or score (IEEE: 0 * Inf = NaN).
Mul(x, y) ==
    IF y = NaN THEN NaN
    ELSE IF y = Inf THEN (IF x = 0 THEN NaN ELSE Inf)
    ELSE x * y

\* x + y of two non-negative floats (IEEE).
Add(x, y) ==
    IF x = NaN \/ y = NaN THEN NaN
    ELSE IF x = Inf \/ y = Inf THEN Inf
    ELSE x + y

\* pandas sum(skipna=True) of the values of f: NaN cells are left out and the
\* sum of no cell is 0 (pandas 0.22 and later; so is the sum of NaN cells only).
RECURSIVE SumSkipNa(_)
SumSkipNa(f) ==
    IF DOMAIN f = {} THEN 0
    ELSE LET k == CHOOSE j \in DOMAIN f : TRUE
             rest == SumSkipNa([j \in DOMAIN f \ {k} |-> f[j]])
         IN IF f[k] = NaN THEN rest ELSE Add(f[k], rest)

\* numpy round to the nearest integer, ties to the even one, of n / d (d > 0).
RoundHalfEven(n, d) ==
    LET q == n \div d
        r == n % d
    IN IF 2 * r < d THEN q
       ELSE IF 2 * r > d THEN q + 1
       ELSE IF q % 2 = 0 THEN q ELSE q + 1

\* One cell of the division count / marker followed by round(decimals=2), in
\* hundredths; x / 0 is Inf and 0 / 0 is NaN, and round keeps both.
NormCell(c, m) ==
    IF m = 0 THEN (IF c = 0 THEN NaN ELSE Inf)
    ELSE RoundHalfEven(100 * c, m)

\* A table restricted to the rows in idx.
Rows(t, idx) == [q \in idx |-> t[q]]

VARIABLES
    pc,                 \* position in run_metagenome_pipeline
    study_seq_counts,   \* sequence -> sample -> abundance
    pred_function,      \* sequence -> function -> copy number
    function_nsti,      \* the function table's metadata_NSTI column, if any
    pred_marker,        \* sequence -> marker copy number
    marker_nsti,        \* the marker table's metadata_NSTI column, if any
    params,             \* max_nsti, min_reads, min_samples, strat_out, proc
    nsti_val,           \* sequence -> score, empty when no column was read
    weighted_nsti,      \* sample -> [num, den], empty when not computed
    rare_seqs,          \* the rare set of funcs_by_sample
    results,            \* task position -> finished per-sample result
    completion,         \* task positions in the order the tasks finished
    strat_df,           \* (function, sequence) -> sample -> value
    unstrat_df,         \* (function) -> sample -> value
    outcome             \* "running", "returned", or the fatal error

vars == <<pc, study_seq_counts, pred_function, function_nsti, pred_marker,
          marker_nsti, params, nsti_val, weighted_nsti, rare_seqs, results,
          completion, strat_df, unstrat_df, outcome>>

NoColumn == [q \in {} |-> 0]
NoTable == [k \in {} |-> 0]

\* ------------------------------------------------------- the pure functions

\* The filter with the threshold itself excluded.
NstiPassStrict(score, max_nsti) == score < max_nsti

\* The comparison of the confidence filter: the rows kept are those with
\* metadata_NSTI <= max_nsti.
NstiPass(score, max_nsti) == score <= max_nsti

\* pred[pred['metadata_NSTI'] <= max_nsti], as the set of rows kept.
NstiFilter(nsti, max_nsti) ==
    {q \in DOMAIN nsti : NstiPass(nsti[q], max_nsti)}

\* The shared row index of the three tables: the sequences present in all.
three_df_index_overlap_sort(counts, func, marker) ==
    (DOMAIN counts \cap DOMAIN func) \cap DOMAIN marker

norm_by_marker_copies(input_seq_counts, input_marker_num) ==
    [q \in DOMAIN input_seq_counts |->
        [s \in Samples |-> NormCell(input_seq_counts[q][s], input_marker_num[q])]]

\* num / den of two non-negative floats, kept as the fraction; a denominator
\* of 0 marks the non-finite results: 0/0 is NaN, 1/0 is Inf.
FracNaN == [num |-> 0, den |-> 0]
FracInf == [num |-> 1, den |-> 0]
Div(num, den) ==
    IF num = NaN \/ den = NaN THEN FracNaN
    ELSE IF num = Inf THEN (IF den = Inf THEN FracNaN ELSE FracInf)
    ELSE IF den = Inf THEN [num |-> 0, den |-> 1]
    ELSE IF den = 0 THEN (IF num = 0 THEN FracNaN ELSE FracInf)
    ELSE [num |-> num, den |-> den]

calc_weighted_nsti(seq_counts, nsti_input) ==
    LET idx == DOMAIN seq_counts \cup DOMAIN nsti_input
        nsti_mult == [q \in idx |-> [s \in Samples |->
                        IF q \in DOMAIN seq_counts /\ q \in DOMAIN nsti_input
                        THEN Mul(nsti_input[q], seq_counts[q][s])
                        ELSE NaN]]
    IN [s \in Samples |->
            Div(SumSkipNa([q \in idx |-> nsti_mult[q][s]]),
                SumSkipNa([q \in DOMAIN seq_counts |-> seq_counts[q][s]]))]

\* in_counts.sum(axis=1) < min_reads, the thresholds being whole reads and
\* the table in hundredths; Inf is below no threshold.
LowFreq(in_counts, q, min_reads) ==
    LET total == SumSkipNa(in_counts[q])
    IN IsFinite(total) /\ total < 100 * min_reads

\* (in_counts != 0).astype(int).sum(axis=1) < min_samples; NaN and Inf are
\* both != 0.
FewSamples(in_counts, q, min_samples) ==
    Cardinality({s \in Samples : in_counts[q][s] # 0}) < min_samples

\* The classifier without the check of the name RARE.
id_rare_seqs_unchecked(in_counts, min_reads, min_samples) ==
    [exit |-> FALSE,
     rare |-> {q \in DOMAIN in_counts : LowFreq(in_counts, q, min_reads)}
              \cup {q \in DOMAIN in_counts :
                        FewSamples(in_counts, q, min_samples)}]

id_rare_seqs(in_counts, min_reads, min_samples) ==
    IF "RARE" \in DOMAIN in_counts
    THEN [exit |-> TRUE, rare |-> {}]
    ELSE [exit |-> FALSE,
          rare |-> {q \in DOMAIN in_counts : LowFreq(in_counts, q, min_reads)}
                   \cup {q \in DOMAIN in_counts :
                            FewSamples(in_counts, q, min_samples)}]

\* The rare set funcs_by_sample passes to the workers.
RareSeqs(input_seq_counts, strat, min_reads, min_samples) ==
    IF strat /\ (min_reads # 1 \/ min_samples # 1)
    THEN id_rare_seqs(input_seq_counts, min_reads, min_samples)
    ELSE [exit |-> FALSE, rare |-> {}]

\* func_abun.mul(sample_seq_counts, axis=0)
FuncAbunDepth(sample_seq_counts, func_abun) ==
    [q \in DOMAIN func_abun |->
        [f \in Funcs |-> Mul(func_abun[q][f], sample_seq_counts[q])]]

\* The rows of the rare sequences summed into the row RARE, the rare rows
\* dropped.
CollapseRare(depth, rare) ==
    IF rare = {} THEN depth
    ELSE LET rare_subset_sum ==
                 [f \in Funcs |-> SumSkipNa([q \in rare |-> depth[q][f]])]
         IN [q \in (DOMAIN depth \ rare) \cup {"RARE"} |->
                IF q = "RARE" THEN rare_subset_sum ELSE depth[q]]

\* One sample's result: keyed by <<function, sequence>> when calc_strat, by
\* <<function>> otherwise.
func_by_seq_abun(sample_seq_counts, func_abun, rare, calc_strat) ==
    LET depth == CollapseRare(FuncAbunDepth(sample_seq_counts, func_abun), rare)
    IN IF calc_strat
       THEN [k \in Funcs \X DOMAIN depth |-> depth[k[2]][k[1]]]
       ELSE [k \in {<<f>> : f \in Funcs} |->
                SumSkipNa([q \in DOMAIN depth |-> depth[q][k[1]]])]

\* The column of sample s of the abundance table.
Column(input_seq_counts, s) ==
    [q \in DOMAIN input_seq_counts |-> input_seq_counts[q][s]]

\* The results taken in the order the tasks finished.
ResultsAsCompleted(res, order) ==
    [i \in 1..Len(sample_ids) |-> res[order[i]]]

\* Parallel(n_jobs=proc)(...): the list of results is in the order of the
\* tasks submitted, whatever the order they finished in.
ParallelResults(res, order) ==
    [i \in 1..Len(sample_ids) |-> res[i]]

\* pd.concat(sample_funcs, axis=1): the rows are the union of the keys, a
\* cell absent from a sample's result is NaN; the columns are positions.
Concat(sample_funcs) ==
    LET keys == UNION {DOMAIN sample_funcs[i] : i \in DOMAIN sample_funcs}
    IN [k \in keys |-> [i \in DOMAIN sample_funcs |->
            IF k \in DOMAIN sample_funcs[i] THEN sample_funcs[i][k] ELSE NaN]]

\* The table with its all-zero rows left in.
KeepZeroRows(df) == df

\* sample_funcs_df.loc[~(sample_funcs_df==0).all(axis=1)]
DropZeroRows(df) ==
    LET keep == {k \in DOMAIN df : ~ (\A i \in DOMAIN df[k] : df[k][i] = 0)}
    IN [k \in keep |-> df[k]]

\* sample_funcs_df.columns = sample_ids: column i is labelled sample_ids[i].
SetColumns(df) ==
    [k \in DOMAIN df |-> [s \in Samples |->
        df[k][CHOOSE i \in 1..Len(sample_ids) : sample_ids[i] = s]]]

\* pd.pivot_table(..., index="function", aggfunc=np.sum): the rows of each
\* function summed per sample (a groupby sum, which skips NaN, so that no
\* row or column is all NaN and dropna=True removes nothing).
PivotByFunction(df) ==
    [k \in {<<j[1]>> : j \in DOMAIN df} |-> [s \in Samples |->
        SumSkipNa([j \in {j \in DOMAIN df : j[1] = k[1]} |-> df[j][s]])]]

\* ---------------------------------------------------------------- the run

\* The inputs are drawn from bounded sets, one family of runs per part of the
\* program: the tables, the thresholds of the rare set, the worker pool, the
\* NSTI columns, a sequence called RARE, and the worked example.

Absent == [present |-> FALSE, score |-> NoColumn]
NstiColumns(ids) ==
    {Absent} \cup {[present |-> TRUE, score |-> sc] : sc \in [ids -> Scores]}

Tables(ids) ==
    /\ study_seq_counts \in [ids -> [Samples -> Counts]]
    /\ pred_function \in [ids -> [Funcs -> Copies]]
    /\ pred_marker \in [ids -> 0..MaxMarker]

PlainTables(ids) ==
    /\ study_seq_counts = [q \in ids |-> [s \in Samples |-> 1]]
    /\ pred_function = [q \in ids |-> [f \in Funcs |-> 1]]
    /\ pred_marker = [q \in ids |-> 1]

Params(reads, samples, strats, procs) ==
    params \in [max_nsti : {DefaultMaxNsti}, min_reads : reads,
                min_samples : samples, strat_out : strats, proc : procs]

InitAggregate ==
    /\ Tables({"seqA", "seqB"})
    /\ function_nsti = Absent
    /\ marker_nsti \in {Absent, [present |-> TRUE,
                                 score |-> [q \in {"seqA", "seqB"} |-> 5]]}
    /\ Params({1}, {1}, BOOLEAN, {1})

InitRare ==
    /\ Tables({"seqA", "seqB"})
    /\ function_nsti = Absent
    /\ marker_nsti = Absent
    /\ Params(0..MaxMinReads, 0..MaxMinSamples, {TRUE}, {1})

InitParallel ==
    /\ Tables({"seqA", "seqB"})
    /\ function_nsti = Absent
    /\ marker_nsti = Absent
    /\ Params({1}, {1}, BOOLEAN, {2})

InitConfidence ==
    /\ PlainTables({"seqA", "seqB", "seqC"})
    /\ function_nsti \in NstiColumns({"seqA", "seqB", "seqC"})
    /\ marker_nsti \in NstiColumns({"seqA", "seqB", "seqC"})
    /\ params \in [max_nsti : Thresholds, min_reads : {1}, min_samples : {1},
                   strat_out : BOOLEAN, proc : {1}]

InitRareName ==
    /\ study_seq_counts \in [{"seqA", "RARE"} -> [Samples -> Counts]]
    /\ pred_function = [q \in {"seqA", "RARE"} |-> [f \in Funcs |-> 1]]
    /\ pred_marker \in [{"seqA", "RARE"} -> 0..MaxMarker]
    /\ function_nsti = Absent
    /\ marker_nsti = Absent
    /\ Params(0..MaxMinReads, 0..MaxMinSamples, BOOLEAN, {1})

\* The worked example: seqA 10 reads in s1, seqB 5 reads in s2, 2 and 1
\* marker copies, 1 and 2 copies of f1 (and none of f2).
InitExample ==
    /\ study_seq_counts = [q \in {"seqA", "seqB"} |-> [s \in Samples |->
            IF q = "seqA" /\ s = "s1" THEN 10
            ELSE IF q = "seqB" /\ s = "s2" THEN 5 ELSE 0]]
    /\ pred_marker = [q \in {"seqA", "seqB"} |-> IF q = "seqA" THEN 2 ELSE 1]
    /\ pred_function = [q \in {"seqA", "seqB"} |-> [f \in Funcs |->
            IF f = "f2" THEN 0 ELSE IF q = "seqA" THEN 1 ELSE 2]]
    /\ function_nsti = Absent
    /\ marker_nsti = Absent
    /\ Params(0..MaxMinReads, 0..MaxMinSamples, BOOLEAN, 1..2)

Init ==
    /\ pc = "filter"
    /\ outcome = "running"
    /\ \/ InitAggregate
       \/ InitRare
       \/ InitParallel
       \/ InitConfidence
       \/ InitRareName
       \/ InitExample
    /\ nsti_val = NoColumn
    /\ weighted_nsti = NoTable
    /\ rare_seqs = {}
    /\ results = NoTable
    /\ completion = <<>>
    /\ strat_df = NoTable
    /\ unstrat_df = NoTable

\* Lines 43-58: the rows above max_nsti are removed from each table that has
\* the column, the column is kept as nsti_val (the marker table's last) and
\* dropped from the table.
Filter ==
    /\ pc = "filter"
    /\ LET fkeep == IF function_nsti.present
                    THEN NstiFilter(function_nsti.score, params.max_nsti)
                    ELSE DOMAIN pred_function
           mkeep == IF marker_nsti.present
                    THEN NstiFilter(marker_nsti.score, params.max_nsti)
                    ELSE DOMAIN pred_marker
       IN /\ pred_function' = Rows(pred_function, fkeep)
          /\ pred_marker' = Rows(pred_marker, mkeep)
          /\ nsti_val' = IF marker_nsti.present
                         THEN Rows(marker_nsti.score, mkeep)
                         ELSE IF function_nsti.present
                         THEN Rows(function_nsti.score, fkeep)
                         ELSE NoColumn
    /\ pc' = "align"
    /\ UNCHANGED <<study_seq_counts, function_nsti, marker_nsti, params,
                   weighted_nsti, rare_seqs, results, completion, strat_df,
                   unstrat_df, outcome>>

\* Lines 60-64: the three tables are cut down to the sequences they share.
\* The aligner is picrust2.util; by its design an empty overlap is fatal.
Align ==
    /\ pc = "align"
    /\ LET idx == three_df_index_overlap_sort(study_seq_counts, pred_function,
                                              pred_marker)
       IN IF idx = {}
          THEN /\ outcome' = "no_overlap"
               /\ pc' = "stopped"
               /\ UNCHANGED <<study_seq_counts, pred_function, pred_marker>>
          ELSE /\ study_seq_counts' = Rows(study_seq_counts, idx)
               /\ pred_function' = Rows(pred_function, idx)
               /\ pred_marker' = Rows(pred_marker, idx)
               /\ pc' = "norm"
               /\ UNCHANGED outcome
    /\ UNCHANGED <<function_nsti, marker_nsti, params, nsti_val, weighted_nsti,
                   rare_seqs, results, completion, strat_df, unstrat_df>>

\* Lines 75-79.
Normalize ==
    /\ pc = "norm"
    /\ study_seq_counts' = norm_by_marker_copies(study_seq_counts, pred_marker)
    /\ pc' = "nsti"
    /\ UNCHANGED <<pred_function, function_nsti, pred_marker, marker_nsti,
                   params, nsti_val, weighted_nsti, rare_seqs, results,
                   completion, strat_df, unstrat_df, outcome>>

\* Lines 81-86: the weighted NSTI is computed when an NSTI column was read.
WeightedNsti ==
    /\ pc = "nsti"
    /\ weighted_nsti' = IF DOMAIN nsti_val # {}
                        THEN calc_weighted_nsti(study_seq_counts, nsti_val)
                        ELSE weighted_nsti
    /\ pc' = "funcs"
    /\ UNCHANGED <<study_seq_counts, pred_function, function_nsti, pred_marker,
                   marker_nsti, params, nsti_val, rare_seqs, results,
                   completion, strat_df, unstrat_df, outcome>>

\* Lines 152-162: funcs_by_sample determines the rare set; id_rare_seqs
\* ends the run (sys.exit) on a sequence called RARE.
RareStep ==
    /\ pc = "funcs"
    /\ LET r == RareSeqs(study_seq_counts, params.strat_out, params.min_reads,
                         params.min_samples)
       IN IF r.exit
          THEN /\ outcome' = "rare_name_exit"
               /\ pc' = "stopped"
               /\ UNCHANGED rare_seqs
          ELSE /\ rare_seqs' = r.rare
               /\ pc' = "workers"
               /\ UNCHANGED outcome
    /\ UNCHANGED <<study_seq_counts, pred_function, function_nsti, pred_marker,
                   marker_nsti, params, nsti_val, weighted_nsti, results,
                   completion, strat_df, unstrat_df>>

Pending == (1..Len(sample_ids)) \ DOMAIN results

\* The task of position i finishes: func_by_seq_abun on the column of
\* sample_ids[i].
Finish(i) ==
    /\ results' = [j \in DOMAIN results \cup {i} |->
                    IF j = i
                    THEN func_by_seq_abun(
                            Column(study_seq_counts, sample_ids[i]),
                            pred_function, rare_seqs, params.strat_out)
                    ELSE results[j]]
    /\ completion' = Append(completion, i)
    /\ UNCHANGED <<pc, study_seq_counts, pred_function, function_nsti,
                   pred_marker, marker_nsti, params, nsti_val, weighted_nsti,
                   rare_seqs, strat_df, unstrat_df, outcome>>

\* Lines 176-183: with proc = 1 the samples are taken in order.
LoopStep ==
    /\ pc = "workers"
    /\ params.proc = 1
    /\ \E i \in Pending :
        /\ \A j \in Pending : i <= j
        /\ Finish(i)

\* Lines 167-175: with proc > 1 the tasks run in a pool and finish in any
\* order.
ParallelWorker ==
    /\ pc = "workers"
    /\ params.proc > 1
    /\ \E i \in Pending : Finish(i)

\* Lines 185-208: the results are put side by side, the all-zero rows are
\* dropped, the columns are named, and with strat_out the unstratified table
\* is the stratified one summed per function.
Assemble ==
    /\ pc = "workers"
    /\ Pending = {}
    /\ LET sample_funcs == ParallelResults(results, completion)
           sample_funcs_df == SetColumns(DropZeroRows(Concat(sample_funcs)))
       IN IF params.strat_out
          THEN /\ strat_df' = sample_funcs_df
               /\ unstrat_df' = PivotByFunction(sample_funcs_df)
          ELSE /\ strat_df' = NoTable
               /\ unstrat_df' = sample_funcs_df
    /\ outcome' = "returned"
    /\ pc' = "done"
    /\ UNCHANGED <<study_seq_counts, pred_function, function_nsti, pred_marker,
                   marker_nsti, params, nsti_val, weighted_nsti, rare_seqs,
                   results, completion>>

Next ==
    \/ Filter
    \/ Align
    \/ Normalize
    \/ WeightedNsti
    \/ RareStep
    \/ LoopStep
    \/ ParallelWorker
    \/ Assemble

Spec == Init /\ [][Next]_vars

\* ------------------------------------------------------------- the claims

\* The sum of the values of f as floating point addition gives it: NaN if
\* any value is NaN, else Inf if any is Inf.
RECURSIVE SumAll(_)
SumAll(f) ==
    IF DOMAIN f = {} THEN 0
    ELSE LET k == CHOOSE j \in DOMAIN f : TRUE
         IN Add(f[k], SumAll([j \in DOMAIN f \ {k} |-> f[j]]))

\* Equality of two floats: NaN is equal to nothing.
FloatEq(x, y) == x # NaN /\ y # NaN /\ x = y

\* From the normalisation on, study_seq_counts is the normalised table.
Normalized == pc \in {"nsti", "funcs", "workers", "done"}

FunctionIds(df) == {k[1] : k \in DOMAIN df}

\* abundance[q, s] * copy_number[q, f] on the normalised, aligned tables.
Contribution(q, f, s) == Mul(pred_function[q][f], study_seq_counts[q][s])

\* C1: with strat_out, every unstratified value is the sum of the stratified
\* rows of its function (RARE included) in that sample, and the two tables
\* hold the same function identifiers.
C1_StratifiedSumsToUnstratified ==
    (pc = "done" /\ params.strat_out) =>
        /\ FunctionIds(strat_df) = FunctionIds(unstrat_df)
        /\ \A k \in DOMAIN unstrat_df : \A s \in Samples :
            FloatEq(unstrat_df[k][s],
                    SumAll([j \in {j \in DOMAIN strat_df : j[1] = k[1]} |->
                                strat_df[j][s]]))

\* C2: every unstratified value is the sum over the sequences of the
\* normalised table of abundance * copy number, whatever strat_out and the
\* thresholds; the worked example gives f1: s1 5.00, s2 10.00.
ExampleTables ==
    /\ DOMAIN study_seq_counts = {"seqA", "seqB"}
    /\ study_seq_counts["seqA"] = [s \in Samples |-> IF s = "s1" THEN 500 ELSE 0]
    /\ study_seq_counts["seqB"] = [s \in Samples |-> IF s = "s2" THEN 500 ELSE 0]
    /\ \A q \in {"seqA", "seqB"} : pred_function[q]["f2"] = 0
    /\ pred_function["seqA"]["f1"] = 1
    /\ pred_function["seqB"]["f1"] = 2

C2_UnstratifiedIsWeightedSum ==
    pc = "done" =>
        /\ \A k \in DOMAIN unstrat_df : \A s \in Samples :
            FloatEq(unstrat_df[k][s],
                    SumAll([q \in DOMAIN study_seq_counts |->
                                Contribution(q, k[1], s)]))
        /\ ExampleTables =>
            unstrat_df = [k \in {<<"f1">>} |->
                            [s \in Samples |-> IF s = "s1" THEN 500 ELSE 1000]]

\* C5: the rare set grows with the thresholds, and is empty at (1, 1).
C5_RareSetMonotone ==
    (pc = "workers" /\ params.strat_out) =>
        /\ \A mr \in params.min_reads..MaxMinReads :
           \A ms \in params.min_samples..MaxMinSamples :
            rare_seqs \subseteq
                RareSeqs(study_seq_counts, TRUE, mr, ms).rare
        /\ (params.min_reads = 1 /\ params.min_samples = 1) => rare_seqs = {}

\* C7: a marker copy number of 0 never gets through the normalisation, and
\* the normalised table holds no NaN and no Inf.
C7_NormalizationNeverDividesByZero ==
    Normalized =>
        /\ \A q \in DOMAIN pred_marker : pred_marker[q] # 0
        /\ \A q \in DOMAIN study_seq_counts : \A s \in Samples :
            IsFinite(study_seq_counts[q][s])

\* C9: no weighted NSTI is NaN for a sample whose total abundance is 0.
C9_ZeroTotalSampleIsFlagged ==
    \A s \in DOMAIN weighted_nsti :
        SumSkipNa(Column(study_seq_counts, s)) = 0 =>
            weighted_nsti[s] # FracNaN

\* C10: with a rare set, a sample's stratified result has no row of a rare
\* sequence, its row (f, RARE) is the sum of the rare sequences'
\* contributions, and the other rows are those of an empty rare set.
C10_RareRowsCollapsed ==
    (params.strat_out /\ rare_seqs # {}) =>
        \A i \in DOMAIN results :
            /\ \A k \in DOMAIN results[i] : k[2] \notin rare_seqs
            /\ \A f \in Funcs :
                /\ <<f, "RARE">> \in DOMAIN results[i]
                /\ FloatEq(results[i][<<f, "RARE">>],
                           SumAll([q \in rare_seqs |->
                                    Contribution(q, f, sample_ids[i])]))
            /\ \A k \in DOMAIN results[i] :
                k[2] # "RARE" =>
                    results[i][k] =
                        func_by_seq_abun(
                            Column(study_seq_counts, sample_ids[i]),
                            pred_function, {}, TRUE)[k]

\* C3: a sequence survives the confidence filter exactly when its score is
\* <= max_nsti in every table that has the column, and a sequence above the
\* threshold is in no table downstream.
ScoredIds == DOMAIN function_nsti.score \cup DOMAIN marker_nsti.score

Exceeds(q) ==
    \/ function_nsti.present /\ function_nsti.score[q] > params.max_nsti
    \/ marker_nsti.present /\ marker_nsti.score[q] > params.max_nsti

C3_ConfidenceFilter ==
    /\ (pc = "align" /\ function_nsti.present) =>
            DOMAIN pred_function =
                {q \in DOMAIN function_nsti.score :
                    function_nsti.score[q] <= params.max_nsti}
    /\ (pc = "align" /\ marker_nsti.present) =>
            DOMAIN pred_marker =
                {q \in DOMAIN marker_nsti.score :
                    marker_nsti.score[q] <= params.max_nsti}
    /\ Normalized =>
            \A q \in ScoredIds :
                (q \in DOMAIN study_seq_counts) <=> ~ Exceeds(q)
    /\ \A i \in DOMAIN results : \A k \in DOMAIN results[i] :
            Len(k) = 2 => ~ (k[2] \in ScoredIds /\ Exceeds(k[2]))
    /\ pc = "done" =>
        /\ \A k \in DOMAIN strat_df : ~ (k[2] \in ScoredIds /\ Exceeds(k[2]))
        /\ \A k \in DOMAIN unstrat_df : \A s \in Samples :
            unstrat_df[k][s] =
                SumSkipNa([q \in {q \in DOMAIN study_seq_counts :
                                    ~ (q \in ScoredIds /\ Exceeds(q))} |->
                            Contribution(q, k[1], s)])

\* The scores 0.5, 1.0 and 2.5 under the threshold 2.0: the first two survive.
C3_Witness ==
    /\ pc = "done"
    /\ params.strat_out
    /\ params.max_nsti = 20
    /\ function_nsti.present
    /\ function_nsti.score["seqA"] = 5
    /\ function_nsti.score["seqB"] = 10
    /\ function_nsti.score["seqC"] = 25
    /\ DOMAIN study_seq_counts = {"seqA", "seqB"}
    /\ {k[2] : k \in DOMAIN strat_df} = {"seqA", "seqB"}

\* C4, as stated: a sequence called RARE and a threshold off its default
\* always end the aggregation before any worker runs.
C4_RareNameAlwaysFails ==
    ("RARE" \in DOMAIN study_seq_counts
        /\ (params.min_reads # 1 \/ params.min_samples # 1)) =>
            pc \notin {"workers", "done"}

\* C4, amended: with strat_out, a sequence called RARE and a threshold off
\* its default end the aggregation with the naming error before any
\* threshold is evaluated; no rare set, no result and no table is produced.
C4_RareNameFailsWhenStratified ==
    ("RARE" \in DOMAIN study_seq_counts /\ params.strat_out
        /\ (params.min_reads # 1 \/ params.min_samples # 1)) =>
            /\ pc \notin {"workers", "done"}
            /\ pc = "stopped" => outcome = "rare_name_exit"
            /\ rare_seqs = {}
            /\ results = NoTable
            /\ strat_df = NoTable
            /\ unstrat_df = NoTable

C4_Witness ==
    /\ pc = "stopped"
    /\ outcome = "rare_name_exit"
    /\ "RARE" \in DOMAIN study_seq_counts
    /\ params.strat_out
    /\ params.min_reads = 2

\* C6: whatever the order the workers finish in, the column of sample s is
\* the result computed from the abundances of s, and the rows are those not
\* zero in every sample: the tables do not depend on proc.
OwnResult(s) ==
    func_by_seq_abun(Column(study_seq_counts, s), pred_function, rare_seqs,
                     params.strat_out)

C6_ColumnsHoldOwnSample ==
    pc = "done" =>
        LET df == IF params.strat_out THEN strat_df ELSE unstrat_df
        IN /\ DOMAIN df = {k \in DOMAIN OwnResult("s1") :
                            \E s \in Samples : OwnResult(s)[k] # 0}
           /\ \A k \in DOMAIN df : \A s \in Samples :
                df[k][s] = OwnResult(s)[k]

\* The second sample's worker finished first, and the two samples differ.
C6_Witness ==
    /\ pc = "done"
    /\ params.proc > 1
    /\ completion = <<2, 1>>
    /\ OwnResult("s1") # OwnResult("s2")
    /\ DOMAIN unstrat_df # {}

\* C8: a function that contributes zero in every sample for every sequence
\* is in neither table, and no stratified row is zero in every sample.
ZeroFunction(f) ==
    \A q \in DOMAIN study_seq_counts : \A s \in Samples :
        Contribution(q, f, s) = 0

C8_ZeroRowsPruned ==
    pc = "done" =>
        /\ \A f \in Funcs :
            ZeroFunction(f) =>
                f \notin FunctionIds(unstrat_df) \cup FunctionIds(strat_df)
        /\ \A k \in DOMAIN strat_df : \E s \in Samples : strat_df[k][s] # 0

\* f2 contributes nothing and is pruned, f1 stays, and a zero row of f1 is
\* pruned from the stratified table.
C8_Witness ==
    /\ pc = "done"
    /\ params.strat_out
    /\ ZeroFunction("f2")
    /\ FunctionIds(unstrat_df) = {"f1"}
    /\ FunctionIds(strat_df) = {"f1"}
    /\ \E q \in DOMAIN study_seq_counts : <<"f1", q>> \notin DOMAIN strat_df

====
